---------------------------- MODULE Spec2Model ----------------------------
(***************************************************************************)
(* A model of the cpu-path-tracer: the sine-hash sampler (rng.rs), the     *)
(* vector arithmetic it rests on (matrix.rs), and the renderer built on    *)
(* both (renderer.rs, pathtracer.rs, image.rs).                            *)
(*                                                                         *)
(* f32 values are IEEE-754 binary32 numbers, kept exactly: a record        *)
(*   [cls, sgn, exp, man]  with value (-1)^sgn * man * 2^exp,              *)
(* cls 0 finite, 1 infinite, 2 NaN.  Finite values are canonical: normal   *)
(* numbers have 2^23 <= man < 2^24 and -149 <= exp <= 104, subnormals and  *)
(* zeros have exp = -149 and man < 2^23.  Addition, multiplication,        *)
(* division, square root and floor round to nearest, ties to even, as the  *)
(* hardware does.                                                          *)
(***************************************************************************)
EXTENDS Integers, Sequences, FiniteSets, TLC

----------------------------------------------------------------------------
(* binary32 format *)

MantBits == 24
EMin == -149
EMax == 104

Pow2(n) == 2^n

(* e, once v has its value: the statements of the code run in order *)
Then(v, e) == IF v = v THEN e ELSE e

Min2(a, b) == IF a <= b THEN a ELSE b
Max2(a, b) == IF a >= b THEN a ELSE b

(* the number of bits of x, 0 <= x < 2^31 *)
BitNibble(x) == IF x < 4 THEN (IF x < 2 THEN x ELSE 2) ELSE (IF x < 8 THEN 3 ELSE 4)
BitByte(x) == IF x < 16 THEN BitNibble(x) ELSE 4 + BitNibble(x \div 16)
BitHalf(x) == IF x < 256 THEN BitByte(x) ELSE 8 + BitByte(x \div 256)
BitLen(x) == IF x < 65536 THEN BitHalf(x) ELSE 16 + BitHalf(x \div 65536)

Fin(s, m, e) == [cls |-> 0, sgn |-> s, exp |-> e, man |-> m]
Zero(s) == Fin(s, 0, EMin)
Inf(s) == [cls |-> 1, sgn |-> s, exp |-> 0, man |-> 0]
NaN == [cls |-> 2, sgn |-> 0, exp |-> 0, man |-> 0]

IsNaN(a) == a.cls = 2
IsInf(a) == a.cls = 1
IsFinite(a) == a.cls = 0
IsZero(a) == a.cls = 0 /\ a.man = 0

(* Round (-1)^s * (X + f) * 2^e to binary32, where 0 <= X < 2^30 and the   *)
(* fraction f is 0 when st is false and strictly between 0 and 1 when st   *)
(* is true.  n is the bit length of X, sh the number of low bits to drop.  *)
Pack(s, m, e) == IF e > EMax THEN Inf(s) ELSE Fin(s, m, e)

Carry(s, q, e) ==
  IF q = Pow2(MantBits) THEN Pack(s, Pow2(MantBits - 1), e + 1) ELSE Pack(s, q, e)

RoundUp(q, r, half, st) == (r > half) \/ (r = half /\ (st \/ q % 2 = 1))

RoundDrop(s, X, e, st, sh) ==
  Carry(s,
        (X \div Pow2(sh))
          + (IF RoundUp(X \div Pow2(sh), X % Pow2(sh), Pow2(sh - 1), st) THEN 1 ELSE 0),
        e + sh)

RoundKeep(s, X, e, l) == Fin(s, X * Pow2(l), e - l)

RoundLen(s, X, e, st, n, sh) ==
  IF sh <= 0 THEN RoundKeep(s, X, e, Min2(MantBits - n, e - EMin))
  ELSE IF sh > n THEN Zero(s)
  ELSE RoundDrop(s, X, e, st, sh)

RoundBits(s, X, e, st, n) == RoundLen(s, X, e, st, n, Max2(n - MantBits, EMin - e))

Round(s, X, e, st) == IF X = 0 THEN Zero(s) ELSE RoundBits(s, X, e, st, BitLen(X))

FromInt(i) == IF i < 0 THEN Round(1, -i, 0, FALSE) ELSE Round(0, i, 0, FALSE)

FNeg(a) == IF IsNaN(a) THEN NaN ELSE [a EXCEPT !.sgn = 1 - a.sgn]

(* x \div 2^d with the sticky flag of the bits shifted out, x < 2^30 *)
ShiftRight(x, d) ==
  IF d > 30 THEN <<0, x # 0>>
  ELSE <<x \div Pow2(d), x % Pow2(d) # 0>>

(* |A| and |B| are the magnitudes with five guard bits, B with its sticky  *)
(* flag; sa and sb the signs; e the exponent of the unit of A and B.       *)
AddMag(sa, sb, A, B, st, e) ==
  IF sa = sb THEN Round(sa, A + B, e, st)
  ELSE IF A = B /\ ~st THEN Zero(0)
  ELSE IF A > B THEN Round(sa, IF st THEN A - B - 1 ELSE A - B, e, st)
  ELSE Round(sb, B - A, e, st)

AddShifted(sa, sb, A, sB, e) == AddMag(sa, sb, A, sB[1], sB[2], e)

(* hi has the larger exponent *)
AddAligned(hi, lo) ==
  AddShifted(hi.sgn, lo.sgn, hi.man * 32,
             ShiftRight(lo.man * 32, hi.exp - lo.exp), hi.exp - 5)

FAddFinite(a, b) ==
  IF IsZero(a) /\ IsZero(b) THEN Zero(IF a.sgn = b.sgn THEN a.sgn ELSE 0)
  ELSE IF a.exp >= b.exp THEN AddAligned(a, b)
  ELSE AddAligned(b, a)

FAdd(a, b) ==
  IF IsNaN(a) \/ IsNaN(b) THEN NaN
  ELSE IF IsInf(a) /\ IsInf(b) THEN (IF a.sgn = b.sgn THEN a ELSE NaN)
  ELSE IF IsInf(a) THEN a
  ELSE IF IsInf(b) THEN b
  ELSE FAddFinite(a, b)

FSub(a, b) == FAdd(a, FNeg(b))

(* the mantissa of a finite non-zero value shifted up to 24 bits *)
NormMan(a) == a.man * Pow2(MantBits - BitLen(a.man))
NormExp(a) == a.exp - (MantBits - BitLen(a.man))

(* the 48-bit product of two 24-bit mantissas, in 12-bit limbs *)
Limb == Pow2(12)

MulWide(s, hi, lo, e) ==
  Round(s, hi * 64 + (lo \div Pow2(18)), e + 18, (lo % Pow2(18)) # 0)

MulSum(s, l24, h, e) == MulWide(s, h + (l24 \div Pow2(24)), l24 % Pow2(24), e)

MulParts(s, p0, p1, p2, e) ==
  MulSum(s, p0 + (p1 % Limb) * Limb, p2 + (p1 \div Limb), e)

MulLimbs(s, ma, mb, e) ==
  MulParts(s, (ma % Limb) * (mb % Limb),
           (ma \div Limb) * (mb % Limb) + (ma % Limb) * (mb \div Limb),
           (ma \div Limb) * (mb \div Limb), e)

FMulFinite(a, b) ==
  IF IsZero(a) \/ IsZero(b) THEN Zero((a.sgn + b.sgn) % 2)
  ELSE MulLimbs((a.sgn + b.sgn) % 2, NormMan(a), NormMan(b), NormExp(a) + NormExp(b))

FMul(a, b) ==
  IF IsNaN(a) \/ IsNaN(b) THEN NaN
  ELSE IF IsInf(a) \/ IsInf(b)
       THEN (IF IsZero(a) \/ IsZero(b) THEN NaN ELSE Inf((a.sgn + b.sgn) % 2))
  ELSE FMulFinite(a, b)

FloorParts(a, q, r) ==
  IF a.sgn = 0 THEN Round(0, q, 0, FALSE)
  ELSE IF r = 0 THEN a
  ELSE Round(1, q + 1, 0, FALSE)

FFloor(a) ==
  IF ~IsFinite(a) \/ IsZero(a) \/ a.exp >= 0 THEN a
  ELSE IF a.exp <= -MantBits
       THEN (IF a.sgn = 0 THEN Zero(0) ELSE Fin(1, Pow2(MantBits - 1), 1 - MantBits))
  ELSE FloorParts(a, a.man \div Pow2(-a.exp), a.man % Pow2(-a.exp))

(* the comparisons of f32: every comparison with a NaN is false *)
FEq(a, b) ==
  /\ ~IsNaN(a) /\ ~IsNaN(b)
  /\ (IsZero(a) /\ IsZero(b)) \/ a = b

MagLess(a, b) ==
  IF IsInf(a) THEN FALSE
  ELSE IF IsInf(b) THEN TRUE
  ELSE a.exp < b.exp \/ (a.exp = b.exp /\ a.man < b.man)

FLt(a, b) ==
  /\ ~IsNaN(a) /\ ~IsNaN(b)
  /\ ~(IsZero(a) /\ IsZero(b))
  /\ IF a.sgn # b.sgn THEN a.sgn = 1
     ELSE IF a.sgn = 0 THEN MagLess(a, b) ELSE MagLess(b, a)

FGe(a, b) == ~IsNaN(a) /\ ~IsNaN(b) /\ ~FLt(a, b)

(* long division: the quotient bits of rem / den, k more of them, seven at *)
(* a time; rem < den < 2^24                                                *)
RECURSIVE DivBits(_, _, _, _)
DivBits(rem, den, k, acc) ==
  IF k = 0 THEN <<acc, rem # 0>>
  ELSE IF k >= 7
       THEN DivBits((128 * rem) % den, den, k - 7, 128 * acc + ((128 * rem) \div den))
  ELSE DivBits((Pow2(k) * rem) % den, den, 0, Pow2(k) * acc + ((Pow2(k) * rem) \div den))

RoundPair(s, Q, e) == Then(Q, Round(s, Q[1], e, Q[2]))

DivMan(s, ma, mb, e) == RoundPair(s, DivBits(ma % mb, mb, 26, ma \div mb), e - 26)

FDivFinite(a, b) ==
  DivMan((a.sgn + b.sgn) % 2, NormMan(a), NormMan(b), NormExp(a) - NormExp(b))

FDiv(a, b) ==
  IF IsNaN(a) \/ IsNaN(b) THEN NaN
  ELSE IF IsInf(a) THEN (IF IsInf(b) THEN NaN ELSE Inf((a.sgn + b.sgn) % 2))
  ELSE IF IsInf(b) THEN Zero((a.sgn + b.sgn) % 2)
  ELSE IF IsZero(b) THEN (IF IsZero(a) THEN NaN ELSE Inf((a.sgn + b.sgn) % 2))
  ELSE IF IsZero(a) THEN Zero((a.sgn + b.sgn) % 2)
  ELSE FDivFinite(a, b)

(* digit-by-digit square root of m * 4^14, m < 4^13: i pairs of bits left *)
SqrtPair(m, i) == IF i > 14 THEN (m \div Pow2(2 * (i - 15))) % 4 ELSE 0

(* one bit of the root: Q is <<root, remainder>> *)
SqrtStep(m, i, Q) ==
  IF 4 * Q[2] + SqrtPair(m, i) >= 4 * Q[1] + 1
  THEN <<2 * Q[1] + 1, 4 * Q[2] + SqrtPair(m, i) - (4 * Q[1] + 1)>>
  ELSE <<2 * Q[1], 4 * Q[2] + SqrtPair(m, i)>>

RECURSIVE SqrtBits(_, _, _)
SqrtBits(m, i, Q) ==
  IF i = 0 THEN <<Q[1], Q[2] # 0>>
  ELSE Then(Q, SqrtBits(m, i - 3,
                        SqrtStep(m, i - 2, SqrtStep(m, i - 1, SqrtStep(m, i, Q)))))

SqrtMan(m, e) ==
  IF e % 2 # 0 THEN RoundPair(0, SqrtBits(2 * m, 27, <<0, 0>>), ((e - 1) \div 2) - 14)
  ELSE RoundPair(0, SqrtBits(m, 27, <<0, 0>>), (e \div 2) - 14)

FSqrt(a) ==
  IF IsNaN(a) THEN NaN
  ELSE IF IsZero(a) THEN a
  ELSE IF a.sgn = 1 THEN NaN
  ELSE IF IsInf(a) THEN a
  ELSE SqrtMan(NormMan(a), NormExp(a))

----------------------------------------------------------------------------
(* f32::sin, rng.rs line 23.  The library sine is outside the repository;  *)
(* it is modelled by a deterministic approximation with the properties of  *)
(* the real one that the sampler relies on: NaN for a non-finite argument, *)
(* sin x = x for |x| < 2^-12 (where x - x^3/6 rounds to x), odd, periodic, *)
(* and |sin x| <= 1.  Elsewhere the angle is reduced modulo 2 pi in units   *)
(* of 2^-12 radians and Bhaskara's rational approximation                  *)
(* 16 h (pi - h) / (5 pi^2 - 4 h (pi - h)), numerator and denominator cut  *)
(* to 24 bits, is rounded to binary32.                                     *)

AnglePi == 12868
AngleTwoPi == 2 * AnglePi

RECURSIVE Pow2Mod(_)
Pow2Mod(k) ==
  IF k <= 30 THEN Pow2(k) % AngleTwoPi
  ELSE (Pow2Mod(k - 30) * (Pow2(30) % AngleTwoPi)) % AngleTwoPi

Angle(a) ==
  LET k == a.exp + 12
  IN IF k < 0 THEN (a.man \div Pow2(-k)) % AngleTwoPi
     ELSE ((a.man % AngleTwoPi) * Pow2Mod(k)) % AngleTwoPi

Bhaskara(s, num, den) == RoundPair(s, DivBits(num % den, den, 24, num \div den), -24)

SinRatio(s, num, den) == Bhaskara(s, num \div 64, den \div 64)

SinHalf(s, h) ==
  SinRatio(s, 16 * h * (AnglePi - h), 5 * AnglePi * AnglePi - 4 * h * (AnglePi - h))

SinAngle(s, ang) ==
  IF ang >= AnglePi THEN SinHalf(1 - s, ang - AnglePi) ELSE SinHalf(s, ang)

Sin(a) ==
  IF ~IsFinite(a) THEN NaN
  ELSE IF IsZero(a) \/ a.exp + BitLen(a.man) <= -12 THEN a
  ELSE SinAngle(a.sgn, Angle(a))

----------------------------------------------------------------------------
(* matrix.rs: Vector3f, a column of three f32 *)

One == FromInt(1)
Two == FromInt(2)

xyz(x, y, z) == <<x, y, z>>

dot(a, b) ==
  FAdd(FAdd(FAdd(Zero(0), FMul(a[1], b[1])), FMul(a[2], b[2])), FMul(a[3], b[3]))

squared_length(a) == dot(a, a)

(* f32::max and f32::min: a NaN operand is ignored *)
FMax(a, b) == IF IsNaN(a) THEN b ELSE IF IsNaN(b) THEN a ELSE IF FLt(a, b) THEN b ELSE a
FMin(a, b) == IF IsNaN(a) THEN b ELSE IF IsNaN(b) THEN a ELSE IF FLt(b, a) THEN b ELSE a

(* impl Add<Matrix>, Sub<Matrix>, Mul<T>, Div<T> for Matrix *)
vadd(a, b) == <<FAdd(a[1], b[1]), FAdd(a[2], b[2]), FAdd(a[3], b[3])>>
vsub(a, b) == <<FSub(a[1], b[1]), FSub(a[2], b[2]), FSub(a[3], b[3])>>
vmul(a, k) == <<FMul(a[1], k), FMul(a[2], k), FMul(a[3], k)>>
vdiv(a, k) == <<FDiv(a[1], k), FDiv(a[2], k), FDiv(a[3], k)>>

length(a) == FSqrt(dot(a, a))

squared_distance(a, b) == squared_length(vsub(a, b))

(* Matrix<f32, R, 1>::normalized: *self / self.length() *)
normalized(a) == vdiv(a, length(a))

clamp(a, lo, hi) ==
  <<FMin(FMax(a[1], lo), hi), FMin(FMax(a[2], lo), hi), FMin(FMax(a[3], lo), hi)>>

ZeroVec == xyz(Zero(0), Zero(0), Zero(0))

(* geometry.rs: Vector3f { x, y, z } and its normalized *)
geometry_normalized_by(a, len) ==
  IF FEq(len, Zero(0)) THEN ZeroVec
  ELSE <<FDiv(a[1], len), FDiv(a[2], len), FDiv(a[3], len)>>

geometry_normalized(a) ==
  geometry_normalized_by(a, FSqrt(FAdd(FAdd(FMul(a[1], a[1]), FMul(a[2], a[2])), FMul(a[3], a[3]))))

----------------------------------------------------------------------------
(* rng.rs: the sampler *)

(* the f32 literals 43758.5453123 and 0.01 *)
HashScale == Fin(0, 11202188, -8)
Perturb == Fin(0, 10737418, -30)

(* Rng::uniform: the new seed and the value returned *)
uniform_return(new_seed) == [seed |-> new_seed, ret |-> FSub(new_seed, FFloor(new_seed))]

uniform_update(seed, new_seed) ==
  uniform_return(IF FEq(new_seed, seed) THEN FAdd(new_seed, Perturb) ELSE new_seed)

uniform(seed) == uniform_update(seed, FMul(Sin(seed), HashScale))

(* one pass of the body of the loop of Rng::unit_sphere: three draws, in   *)
(* the order of the arguments of Vector3f::xyz                             *)
sphere_coord(u) == FSub(FMul(Two, u), One)

sphere_z(x, y, u3) == Then(u3, [seed |-> u3.seed, p |-> xyz(x, y, sphere_coord(u3.ret))])

sphere_y(x, u2) == Then(u2, sphere_z(x, sphere_coord(u2.ret), uniform(u2.seed)))

sphere_x(u1) == Then(u1, sphere_y(sphere_coord(u1.ret), uniform(u1.seed)))

sphere_candidate(seed) == sphere_x(uniform(seed))

(* the loop condition of Rng::unit_sphere *)
sphere_rejects(p) == FGe(squared_length(p), One)


(* a whole call of Rng::unit_sphere: p starts at (1, 1, 1) and the loop    *)
(* runs until p is accepted; st is "loop" when the loop is still running   *)
(* after MaxPasses passes                                                  *)
MaxPasses == 8

RECURSIVE unit_sphere_loop(_, _, _)
unit_sphere_pass(c, fuel) == Then(c, unit_sphere_loop(c.seed, c.p, fuel))

unit_sphere_loop(seed, p, fuel) ==
  IF ~sphere_rejects(p) THEN [st |-> "ok", seed |-> seed, p |-> p]
  ELSE IF fuel = 0 THEN [st |-> "loop", seed |-> seed, p |-> p]
  ELSE unit_sphere_pass(sphere_candidate(seed), fuel - 1)

unit_sphere(seed) == unit_sphere_loop(seed, xyz(One, One, One), MaxPasses)

----------------------------------------------------------------------------
(* geometry: Ray, HitData, Sphere and Camera, as the renderer uses them.   *)
(* Sphere::intersect and Camera::back_project follow the specification's  *)
(* sections 4.1 and 4.2.                                                   *)

Half == Fin(0, Pow2(23), -24)
FGt(a, b) == FLt(b, a)

Ray(origin, direction) == [origin |-> origin, direction |-> direction]

(* obj is the index in the object list of the object that was hit; it is   *)
(* not a field of HitData and no operator of the renderer reads it         *)
HitData(point, normal, obj) == [intersection_point |-> point, normal |-> normal, obj |-> obj]

None == [st |-> "none"]
Some(hit) == [st |-> "some", hit |-> hit]

Sphere(center, radius) == [center |-> center, radius |-> radius]

sphere_facing(normal, direction) ==
  IF FGt(dot(normal, direction), Zero(0)) THEN vmul(normal, FromInt(-1)) ELSE normal

sphere_hit_at(s, ray, point) ==
  Some(HitData(point, sphere_facing(normalized(vsub(point, s.center)), ray.direction), 0))

sphere_point(ray, t) == vadd(ray.origin, vmul(ray.direction, t))

sphere_root(s, ray, min_distance, t1, t2) ==
  IF FGt(t1, min_distance) THEN sphere_hit_at(s, ray, sphere_point(ray, t1))
  ELSE IF FGt(t2, min_distance) THEN sphere_hit_at(s, ray, sphere_point(ray, t2))
  ELSE None

sphere_roots(s, ray, min_distance, b, root) ==
  sphere_root(s, ray, min_distance, FSub(FNeg(b), root), FAdd(FNeg(b), root))

sphere_discriminant(s, ray, min_distance, b, discriminant) ==
  IF FLt(discriminant, Zero(0)) THEN None
  ELSE sphere_roots(s, ray, min_distance, b, FSqrt(discriminant))

sphere_solve(s, ray, min_distance, oc, b) ==
  sphere_discriminant(s, ray, min_distance, b,
    FSub(FMul(b, b), FSub(dot(oc, oc), FMul(s.radius, s.radius))))

sphere_from(s, ray, min_distance, oc) ==
  sphere_solve(s, ray, min_distance, oc, dot(ray.direction, oc))

intersect(s, ray, min_distance) == sphere_from(s, ray, min_distance, vsub(ray.origin, s.center))

(* Camera::new(forward = (0, 0, -1), up = (0, 1, 0), 90 degrees, (w, h)):  *)
(* tan(fov / 2) is 1.0                                                     *)
Camera(w, h) ==
  [forward |-> xyz(Zero(0), Zero(0), FromInt(-1)),
   up |-> xyz(Zero(0), One, Zero(0)),
   right |-> xyz(One, Zero(0), Zero(0)),
   focal_length |-> FMul(Half, FromInt(Max2(w, h))),
   principal_point |-> <<FSub(FDiv(FromInt(w), Two), Half), FSub(FDiv(FromInt(h), Two), Half)>>,
   sensor_size_px |-> <<w, h>>]

back_project_ndc(camera, x_ndc, y_ndc) ==
  Ray(ZeroVec,
      normalized(vadd(vadd(vmul(camera.forward, camera.focal_length),
                           vmul(camera.right, x_ndc)),
                      vmul(camera.up, y_ndc))))

back_project(camera, x, y) ==
  back_project_ndc(camera, FSub(x, camera.principal_point[1]),
                   FNeg(FSub(y, camera.principal_point[2])))

----------------------------------------------------------------------------
(* renderer.rs and pathtracer.rs: the integrator.  R is the value of self: *)
(* [shader, camera, objects, ambient_light_color, max_depth,               *)
(* samples_per_pixel], shader being "Renderer" or "PathTracerShader".      *)

MIN_DISTANCE == Fin(0, 8589935, -33)

Black == xyz(Zero(0), Zero(0), Zero(0))
White == xyz(One, One, One)

(* f32::partial_cmp *)
partial_cmp(a, b) ==
  IF FLt(a, b) THEN "Less" ELSE IF FLt(b, a) THEN "Greater"
  ELSE IF FEq(a, b) THEN "Equal" ELSE "None"

(* the closure compare, before its unwrap() *)
compare(ray, a, b) ==
  partial_cmp(squared_distance(ray.origin, a.intersection_point),
              squared_distance(ray.origin, b.intersection_point))

(* what filter_map(|object| object.intersect(ray, MIN_DISTANCE)) yields   *)
(* for the i-th object: nothing, or its hit                                *)
filter_keep(found, i) ==
  IF found.st = "none" THEN None ELSE Some([found.hit EXCEPT !.obj = i])

filter_map(objects, ray, i) ==
  filter_keep(intersect(objects[i].surface, ray, MIN_DISTANCE), i)

(* Iterator::min_by folds the hits as the iterator yields them and keeps   *)
(* the first of the least; st is "panic" when compare unwraps None         *)
max_by_step(best, found, ordering) ==
  IF ordering = "None" THEN [st |-> "panic"]
  ELSE IF ordering = "Less" THEN found ELSE best

min_by_step(best, found, ordering) ==
  IF ordering = "None" THEN [st |-> "panic"]
  ELSE IF ordering = "Greater" THEN found ELSE best

min_by_fold(ray, best, found) ==
  IF found.st = "none" THEN best
  ELSE IF best.st = "none" THEN found
  ELSE min_by_step(best, found, compare(ray, best.hit, found.hit))

RECURSIVE min_by(_, _, _, _)
min_by(objects, ray, i, best) ==
  IF best.st = "panic" \/ i > Len(objects) THEN best
  ELSE min_by(objects, ray, i + 1, min_by_fold(ray, best, filter_map(objects, ray, i)))

nearest_hit(R, ray) == min_by(R.objects, ray, 1, None)

(* a depth test that lets the depth pass below 0 *)
depth_underflows(max_depth) == max_depth = -1

(* if max_depth == 0 (u32) and if max_depth <= 0 (i32) *)
depth_exhausted(max_depth) == max_depth = 0
shader_depth_exhausted(max_depth) == max_depth <= 0

exhausted(R, max_depth) ==
  IF R.shader = "Renderer" THEN depth_exhausted(max_depth)
  ELSE shader_depth_exhausted(max_depth)

(* the color returned when the depth is exhausted *)
ambient_when_exhausted(R) == R.ambient_light_color
black_when_exhausted(R) == Black

(* the color returned when nothing is hit *)
light_color(R) == IF R.shader = "Renderer" THEN R.ambient_light_color ELSE White

(* the ray scattered from a hit, p being the point of rng.unit_sphere() *)
scatter_target(hit, p) == vadd(vadd(hit.intersection_point, hit.normal), p)

scatter_ray(hit, p) ==
  Ray(hit.intersection_point, normalized(vsub(scatter_target(hit, p), hit.intersection_point)))

(* what a call returns: st is "ok" when it returns, color the value        *)
(* returned, seed the seed it leaves in rng, queries the searches of the   *)
(* object list it made, path the objects hit, outermost first              *)
Traced(st, color, seed, queries) ==
  [st |-> st, color |-> color, seed |-> seed, queries |-> queries, path |-> <<>>]

(* the recursive result * 0.5 *)
attenuate(R, hit, color) == vmul(color, Half)

RECURSIVE compute_color_for_ray(_, _, _, _)
trace_return(R, hit, sub) ==
  [sub EXCEPT !.color = attenuate(R, hit, sub.color),
              !.queries = @ + 1,
              !.path = <<hit.obj>> \o @]

trace_scatter(R, hit, sphere, max_depth) ==
  IF sphere.st # "ok" THEN Traced(sphere.st, Black, sphere.seed, 1)
  ELSE trace_return(R, hit,
         compute_color_for_ray(R, scatter_ray(hit, sphere.p), sphere.seed, max_depth - 1))

trace_nearest(R, seed, max_depth, nearest) ==
  IF nearest.st = "panic" THEN Traced("panic", Black, seed, 1)
  ELSE IF nearest.st = "none" THEN Traced("ok", light_color(R), seed, 1)
  ELSE trace_scatter(R, nearest.hit, unit_sphere(seed), max_depth)

compute_color_for_ray(R, ray, seed, max_depth) ==
  IF exhausted(R, max_depth) THEN Traced("ok", black_when_exhausted(R), seed, 0)
  ELSE Then(ray, trace_nearest(R, seed, max_depth, nearest_hit(R, ray)))

gamma_correct(color) == <<FSqrt(color[1]), FSqrt(color[2]), FSqrt(color[3])>>

(* one pass of the loop over the samples of compute_color_for_pixel: acc   *)
(* is [st, color, seed], the color summed so far and the seed of rng       *)
jitter(x, u) == FAdd(x, FSub(u, Half))

sample_add(acc, traced) ==
  [st |-> traced.st, color |-> vadd(acc.color, traced.color), seed |-> traced.seed]

sample_ray(R, x, y, acc, u1, u2) ==
  Then(u2, sample_add(acc,
    compute_color_for_ray(R, back_project(R.camera, jitter(x, u1.ret), jitter(y, u2.ret)),
                          u2.seed, R.max_depth)))

sample_y(R, x, y, acc, u1) == Then(u1, sample_ray(R, x, y, acc, u1, uniform(u1.seed)))

sample(R, x, y, acc) == sample_y(R, x, y, acc, uniform(acc.seed))

RECURSIVE samples(_, _, _, _, _)
samples(R, x, y, k, acc) ==
  IF k = 0 \/ acc.st # "ok" THEN acc
  ELSE samples(R, x, y, k - 1, sample(R, x, y, acc))

pixel_color(R, acc) ==
  [acc EXCEPT !.color =
     clamp(gamma_correct(vdiv(acc.color, FromInt(R.samples_per_pixel))), Zero(0), One)]

compute_color_for_pixel(R, x, y, seed) ==
  pixel_color(R, samples(R, FromInt(x), FromInt(y), R.samples_per_pixel,
                         [st |-> "ok", color |-> Black, seed |-> seed]))

----------------------------------------------------------------------------
(* image.rs and Renderer::render as a function of self and the seed *)

NoImage == [width |-> 0, height |-> 0, data |-> <<>>]

(* u32 multiplication, for operands below 2^31: the product modulo 2^32 as *)
(* <<high 16 bits, low 16 bits>>, and whether the product is 2^32 or more  *)
Word == Pow2(16)

mul_low(al, bl) == ((al * (bl \div 256)) % 256) * 256 + ((al * (bl % 256)) % Word)

mul_carry(al, bl) ==
  ((al * (bl \div 256)) \div 256) + ((al * (bl % 256)) \div Word) + (mul_low(al, bl) \div Word)

mul_high(a, b) ==
  mul_carry(a % Word, b % Word)
    + (((a \div Word) * (b % Word)) % Word) + (((a % Word) * (b \div Word)) % Word)

wrapping_mul(a, b) == <<mul_high(a, b) % Word, mul_low(a % Word, b % Word) % Word>>

mul_overflows(a, b) ==
  \/ (a \div Word) * (b \div Word) > 0
  \/ ((a \div Word) * (b % Word)) \div Word > 0
  \/ ((a % Word) * (b \div Word)) \div Word > 0
  \/ mul_high(a, b) >= Word

(* (width * height) as usize *)
as_usize(w) == w[1] * Word + w[2]

(* Image::new, where width * height does not panic *)
Image(width, height) ==
  [width |-> width, height |-> height,
   data |-> [i \in 1 .. as_usize(wrapping_mul(width, height)) |-> Black]]

(* Image::new in a build with overflow checks (they panic when the product *)
(* overflows) or without them (the product wraps)                          *)
image_new(width, height, overflow_checks) ==
  IF overflow_checks /\ mul_overflows(width, height) THEN [st |-> "panic", image |-> NoImage]
  ELSE [st |-> "image", image |-> Image(width, height)]

(* f32::round: to the nearest integer, halves away from zero *)
round_parts(a, q, r, half) == Round(a.sgn, IF r >= half THEN q + 1 ELSE q, 0, FALSE)

FRound(a) ==
  IF ~IsFinite(a) \/ IsZero(a) \/ a.exp >= 0 THEN a
  ELSE IF a.exp < -MantBits THEN Zero(a.sgn)
  ELSE round_parts(a, a.man \div Pow2(-a.exp), a.man % Pow2(-a.exp), Pow2(-a.exp - 1))

(* f32 as u8: NaN gives 0, the rest is truncated and saturates *)
as_u8(a) ==
  IF IsNaN(a) THEN 0
  ELSE IF IsZero(a) \/ a.sgn = 1 THEN 0
  ELSE IF IsInf(a) \/ a.exp > 7 THEN 255
  ELSE IF a.exp >= 0 THEN Min2(255, a.man * Pow2(a.exp))
  ELSE IF a.exp < -MantBits THEN 0
  ELSE Min2(255, a.man \div Pow2(-a.exp))

(* the closure float_to_byte of to_ppm *)
float_to_byte(f) == as_u8(FRound(FMul(FMin(FMax(f, Zero(0)), One), FromInt(255))))

(* format!("{}", n) of a u32, as bytes *)
RECURSIVE decimal(_)
decimal(n) == IF n < 10 THEN <<48 + n>> ELSE Append(decimal(n \div 10), 48 + (n % 10))

(* format!("P6 {} {} 255 ", self.width, self.height).as_bytes() *)
header(image) ==
  <<80, 54, 32>> \o decimal(image.width) \o <<32>> \o decimal(image.height)
    \o <<32, 50, 53, 53, 32>>

(* .map(|c| [c.r, c.g, c.b]).flatten().map(float_to_byte).collect() *)
data_bytes(image) ==
  [n \in 1 .. 3 * Len(image.data) |->
     float_to_byte(image.data[((n - 1) \div 3) + 1][((n - 1) % 3) + 1])]

to_ppm(image) == header(image) \o data_bytes(image)

(* ClosureShader: the closure of test_apply_shader, or one that returns    *)
(* the same color for every pixel                                          *)
closure_color(shader, x, y) ==
  IF shader.kind = "coordinates" THEN xyz(FromInt(x), FromInt(y), Zero(0))
  ELSE shader.color


image_size(R) == R.camera.sensor_size_px

pixel_x(i, width) == i % width
row_in_column(i, width) == i % width
pixel_y(i, width) == i \div width

(* Shader::apply of a ClosureShader, as a function of the image *)
apply(shader, image) ==
  [image EXCEPT !.data =
     [i \in 1 .. Len(image.data) |->
        closure_color(shader, pixel_x(i - 1, image.width), pixel_y(i - 1, image.width))]]

(* the closure of for_each for the element of index i (from 0) *)
render_pixel(R, i, seed) ==
  compute_color_for_pixel(R, pixel_x(i, image_size(R)[1]), pixel_y(i, image_size(R)[1]), seed)

RECURSIVE render_from(_, _, _, _)
render_put(R, i, image, pixel) ==
  IF pixel.st # "ok" THEN [st |-> pixel.st, image |-> image, seed |-> pixel.seed]
  ELSE render_from(R, i + 1, [image EXCEPT !.data[i + 1] = pixel.color], pixel.seed)

render_from(R, i, image, seed) ==
  IF i = Len(image.data) THEN [st |-> "ok", image |-> image, seed |-> seed]
  ELSE render_put(R, i, image, render_pixel(R, i, seed))

render(R, seed) == render_from(R, 0, Image(image_size(R)[1], image_size(R)[2]), seed)

(* average_render: the weight of each image and the sum at the join *)
unit_weight(n) == One
weight(n) == FDiv(One, FromInt(n))

accumulate(img, data, w) ==
  [img EXCEPT !.data = [i \in 1 .. Len(img.data) |-> vadd(img.data[i], vmul(data[i], w))]]

(* main.rs: the objects of the scene *)
Object(center, radius, albedo) == [surface |-> Sphere(center, radius), albedo |-> albedo]

Ball ==
  Object(xyz(Zero(0), Zero(0), FromInt(-1)), Half,
         xyz(Fin(0, 13421773, -27), Fin(0, 13421773, -26), Half))

SmallBall ==
  Object(xyz(Fin(0, 13421773, -24), Fin(1, 13421773, -25), FromInt(-1)), Fin(0, 10066330, -25),
         xyz(Fin(0, 13421773, -27), Fin(0, 15099494, -24), Half))

Ground ==
  Object(xyz(Zero(0), Fin(1, 10747904, -19), Zero(0)), FromInt(20),
         xyz(Half, Fin(0, 13421773, -26), Half))

Renderer(shader, camera, objects, ambient_light_color, max_depth, samples_per_pixel) ==
  [shader |-> shader, camera |-> camera, objects |-> objects,
   ambient_light_color |-> ambient_light_color, max_depth |-> max_depth,
   samples_per_pixel |-> samples_per_pixel]

----------------------------------------------------------------------------
(* State *)

VARIABLES
  rng,         \* sampler -> the Rng struct, [seed]
  pc,          \* sampler -> "idle", or "loop" inside Rng::unit_sphere
  pnt,         \* sampler -> the local p of Rng::unit_sphere
  iters,       \* sampler -> passes of the loop of the unit_sphere call under way
  calls,       \* sampler -> the calls returned so far, [op, ret]
  operand,     \* the vector a method of a vector type is called on
  outcome,     \* the last call on operand: [st, op, arg, ret]
  call,        \* the arguments of a call of compute_color_for_ray
  answer,      \* what that call returned
  seeds,       \* the seed of each call of render
  renderer,    \* render -> the Renderer it is called on
  phase,       \* render -> "new", "run" (inside for_each) or "done" (returned)
  image,       \* render -> the local image
  cursor,      \* render -> the index for_each has reached
  render_rng,  \* render -> the seed of the local rng
  started,     \* render -> the seed of rng as each pixel began
  written,     \* render -> how many times each element of data was assigned
  finished,    \* the renders that have returned, in the order they did
  avg_pc,      \* average_render: "off", "spawn", "join" or "returned"
  spawned,     \* average_render: the threads spawned
  joined,      \* average_render: the threads joined
  img,         \* average_render: the local img
  canvas,      \* the arguments of Image::new, then the Image it returned
  ppm          \* what to_ppm returned for canvas

rngVars == <<rng, pc, pnt, iters, calls>>
vecVars == <<operand, outcome>>
traceVars == <<call, answer>>
renderVars == <<seeds, renderer, phase, image, cursor, render_rng, started, written, finished>>
avgVars == <<avg_pc, spawned, joined, img>>
ppmVars == <<canvas, ppm>>

vars ==
  <<rng, pc, pnt, iters, calls, operand, outcome, call, answer, seeds, renderer, phase,
    image, cursor, render_rng, started, written, finished, avg_pc, spawned, joined, img,
    canvas, ppm>>

(* the parts of the state a specification does not use *)
RngIdle ==
  /\ rng = <<>> /\ pc = <<>> /\ pnt = <<>> /\ iters = <<>> /\ calls = <<>>

VecIdle == operand = ZeroVec /\ outcome = None

TraceIdle == call = None /\ answer = None

RenderIdle ==
  /\ seeds = <<>> /\ renderer = <<>> /\ phase = <<>> /\ image = <<>> /\ cursor = <<>>
  /\ render_rng = <<>> /\ started = <<>> /\ written = <<>> /\ finished = <<>>

AvgIdle == avg_pc = "off" /\ spawned = 0 /\ joined = 0 /\ img = NoImage

PpmIdle == canvas = None /\ ppm = None

----------------------------------------------------------------------------
(* The sampler on its own: two Rng values constructed from one seed, each  *)
(* called in any order, the calls of one interleaved with the other's.     *)

MaxCalls == 2
MaxIter == 4

Samplers == 1 .. 2

(* seeds Rng::new is given: any f32 *)
Seeds ==
  { Zero(0), Zero(1), Perturb, One, FromInt(2), FromInt(-3), FromInt(8),
    FromInt(1000000), HashScale, Fin(1, Pow2(23), -24),
    Fin(0, Pow2(23), -73), Fin(1, Pow2(23), -73), Fin(1, 9007199, -67),
    Fin(1, 1, EMin), Fin(0, Pow2(24) - 1, EMax), Inf(0), Inf(1), NaN }

(* a seed kept in one place for all samplers instead of in each Rng *)
shared_seed(rngs, r) == rngs[1].seed

(* self.seed of sampler r *)
self_seed(rngs, r) == rngs[r].seed

Returned(r, op, ret) == calls' = [calls EXCEPT ![r] = Append(@, [op |-> op, ret |-> ret])]

Drawn(r, u) ==
  /\ rng' = [rng EXCEPT ![r].seed = u.seed]
  /\ Returned(r, "uniform", <<u.ret>>)

Tried(r, c) ==
  /\ rng' = [rng EXCEPT ![r].seed = c.seed]
  /\ pnt' = [pnt EXCEPT ![r] = c.p]

InitRng ==
  \E s \in Seeds :
    /\ rng = [r \in Samplers |-> [seed |-> s]]
    /\ pc = [r \in Samplers |-> "idle"]
    /\ pnt = [r \in Samplers |-> xyz(One, One, One)]
    /\ iters = [r \in Samplers |-> 0]
    /\ calls = [r \in Samplers |-> <<>>]

CallUniform(r) ==
  /\ pc[r] = "idle"
  /\ Len(calls[r]) < MaxCalls
  /\ Drawn(r, uniform(self_seed(rng, r)))
  /\ UNCHANGED <<pc, pnt, iters>>

CallUnitSphere(r) ==
  /\ pc[r] = "idle"
  /\ Len(calls[r]) < MaxCalls
  /\ pc' = [pc EXCEPT ![r] = "loop"]
  /\ pnt' = [pnt EXCEPT ![r] = xyz(One, One, One)]
  /\ iters' = [iters EXCEPT ![r] = 0]
  /\ UNCHANGED <<rng, calls>>

SphereLoop(r) ==
  /\ pc[r] = "loop"
  /\ sphere_rejects(pnt[r])
  /\ iters[r] < MaxIter
  /\ Tried(r, sphere_candidate(self_seed(rng, r)))
  /\ iters' = [iters EXCEPT ![r] = @ + 1]
  /\ UNCHANGED <<pc, calls>>

SphereReturn(r) ==
  /\ pc[r] = "loop"
  /\ ~sphere_rejects(pnt[r])
  /\ pc' = [pc EXCEPT ![r] = "idle"]
  /\ Returned(r, "unit_sphere", pnt[r])
  /\ UNCHANGED <<rng, pnt, iters>>

NextRng ==
  \E r \in Samplers :
    \/ CallUniform(r)
    \/ CallUnitSphere(r)
    \/ SphereLoop(r)
    \/ SphereReturn(r)

Init == InitRng /\ VecIdle /\ TraceIdle /\ RenderIdle /\ AvgIdle /\ PpmIdle

Next == NextRng /\ UNCHANGED <<vecVars, traceVars, renderVars, avgVars, ppmVars>>

Spec == Init /\ [][Next]_vars

----------------------------------------------------------------------------
(* One sampler called until it has returned MaxCalls calls, the loop of    *)
(* Rng::unit_sphere running for as many passes as it takes, up to MaxLoop, *)
(* from any seed of LoopSeeds.                                             *)

MaxLoop == 32

LoopSeeds == Seeds \cup { FromInt(n) : n \in 1 .. 40 }

InitLoop ==
  \E s \in LoopSeeds :
    /\ rng = <<[seed |-> s]>>
    /\ pc = <<"idle">>
    /\ pnt = <<xyz(One, One, One)>>
    /\ iters = <<0>>
    /\ calls = <<<<>>>>

(* one pass of the loop *)
SpherePass(r) ==
  /\ pc[r] = "loop"
  /\ sphere_rejects(pnt[r])
  /\ iters[r] < MaxLoop
  /\ Tried(r, sphere_candidate(self_seed(rng, r)))
  /\ iters' = [iters EXCEPT ![r] = @ + 1]
  /\ UNCHANGED <<pc, calls>>

NextLoop ==
  \/ CallUniform(1)
  \/ CallUnitSphere(1)
  \/ SpherePass(1)
  \/ SphereReturn(1)

LoopInit == InitLoop /\ VecIdle /\ TraceIdle /\ RenderIdle /\ AvgIdle /\ PpmIdle

LoopStep == NextLoop /\ UNCHANGED <<vecVars, traceVars, renderVars, avgVars, ppmVars>>

SpecLoop == LoopInit /\ [][LoopStep]_vars

----------------------------------------------------------------------------
(* The vector types on their own: normalized() of matrix.rs and of         *)
(* geometry.rs, and the direction of the ray the integrator scatters,      *)
(* called on a vector drawn from Vectors.                                  *)

Components ==
  { Zero(0), Zero(1), One, FromInt(-3), Fin(0, Pow2(23), -103), Fin(0, Pow2(23), 3) }

Vectors == { xyz(x, y, z) : x, y, z \in Components }

Called(op, arg, ret) == outcome' = [st |-> "some", op |-> op, arg |-> arg, ret |-> ret]

InitVector ==
  /\ operand \in Vectors
  /\ outcome = None

CallNormalized ==
  /\ Called("normalized", operand, normalized(operand))
  /\ UNCHANGED operand

CallGeometryNormalized ==
  /\ Called("geometry_normalized", operand, geometry_normalized(operand))
  /\ UNCHANGED operand

(* a hit at the point operand, its normal along x, the point of            *)
(* unit_sphere() being (0.5, 0, 0)                                         *)
CallScatter ==
  /\ Called("scatter",
            vsub(scatter_target(HitData(operand, xyz(One, Zero(0), Zero(0)), 1),
                                xyz(Half, Zero(0), Zero(0))),
                 operand),
            scatter_ray(HitData(operand, xyz(One, Zero(0), Zero(0)), 1),
                        xyz(Half, Zero(0), Zero(0))).direction)
  /\ UNCHANGED operand

NextVector ==
  \/ CallNormalized
  \/ CallGeometryNormalized
  \/ CallScatter

VectorInit == InitVector /\ RngIdle /\ TraceIdle /\ RenderIdle /\ AvgIdle /\ PpmIdle

VectorStep == NextVector /\ UNCHANGED <<rngVars, traceVars, renderVars, avgVars, ppmVars>>

SpecVector == VectorInit /\ [][VectorStep]_vars

----------------------------------------------------------------------------
(* The scalar operators of Matrix<T, R, C> on matrices of integers: here   *)
(* operand is <<m, s>>, the matrix (a sequence of rows) and the scalar.    *)

(* self.data.iter_mut().flatten().for_each(|x| *x += rhs) of Add<T> *)
scalar_add(m, s) == [i \in DOMAIN m |-> [j \in DOMAIN m[i] |-> m[i][j] + s]]

(* the same line in Sub<T>: it also reads *x += rhs *)
scalar_sub(m, s) == [i \in DOMAIN m |-> [j \in DOMAIN m[i] |-> m[i][j] + s]]

Elements == -1 .. 1

Scalars == -2 .. 2

Matrices == { <<<<a, b>>, <<c, d>>>> : a, b, c, d \in Elements }

InitMatrix ==
  /\ operand \in Matrices \X Scalars
  /\ outcome = None

(* m + s *)
CallAddScalar ==
  /\ Called("add", operand, scalar_add(operand[1], operand[2]))
  /\ UNCHANGED operand

(* m - s *)
CallSubScalar ==
  /\ Called("sub", operand, scalar_sub(operand[1], operand[2]))
  /\ UNCHANGED operand

(* (m + s) - s *)
CallAddThenSub ==
  /\ Called("add_sub", operand, scalar_sub(scalar_add(operand[1], operand[2]), operand[2]))
  /\ UNCHANGED operand

NextMatrix ==
  \/ CallAddScalar
  \/ CallSubScalar
  \/ CallAddThenSub

MatrixInit == InitMatrix /\ RngIdle /\ TraceIdle /\ RenderIdle /\ AvgIdle /\ PpmIdle

MatrixStep == NextMatrix /\ UNCHANGED <<rngVars, traceVars, renderVars, avgVars, ppmVars>>

SpecMatrix == MatrixInit /\ [][MatrixStep]_vars

----------------------------------------------------------------------------
(* One call of compute_color_for_ray, of Renderer or of PathTracerShader,  *)
(* on arguments drawn from small sets.                                     *)

MaxDepth == 2

Scenes == { <<>>, <<Ground>>, <<Ball, SmallBall, Ground>>, <<Ground, SmallBall, Ball>> }

Sky == xyz(Half, Fin(0, 13421773, -24), One)

Ambients == { White, Sky }

TraceSeeds == { One, FromInt(8) }

TraceRays ==
  { back_project(Camera(2, 2), FromInt(x), FromInt(y)) : x, y \in 0 .. 1 }
    \cup { Ray(ZeroVec, xyz(Zero(0), Zero(0), FromInt(-1))),
           Ray(ZeroVec, normalized(SmallBall.surface.center)) }

(* max_depth is a u32 in Renderer and an i32 in PathTracerShader *)
Depths(shader) == IF shader = "Renderer" THEN 0 .. MaxDepth ELSE -1 .. MaxDepth

InitTrace ==
  /\ \E shader \in {"Renderer", "PathTracerShader"}, objects \in Scenes,
        ambient \in Ambients, ray \in TraceRays, seed \in TraceSeeds :
       \E max_depth \in Depths(shader) :
         call = [st |-> "some",
                 R |-> Renderer(shader, Camera(2, 2), objects, ambient, MaxDepth, 1),
                 ray |-> ray, seed |-> seed, max_depth |-> max_depth]
  /\ answer = None

ComputeColorForRay ==
  /\ answer = None
  /\ answer' = compute_color_for_ray(call.R, call.ray, call.seed, call.max_depth)
  /\ UNCHANGED call

NextTrace == ComputeColorForRay

TraceInit == InitTrace /\ RngIdle /\ VecIdle /\ RenderIdle /\ AvgIdle /\ PpmIdle

TraceStep == NextTrace /\ UNCHANGED <<rngVars, vecVars, renderVars, avgVars, ppmVars>>

SpecTrace == TraceInit /\ [][TraceStep]_vars

----------------------------------------------------------------------------
(* Renderer::render and Shader::apply of a PathTracerShader, step by step. *)
(* A run k is one call: renderer[k] is self, seeds[k] the seed argument of *)
(* render or the seed field of the shader.                                 *)

(* Rng::new(self.seed + x + y * 100.0) *)
pixel_seed(seed, x, y) == FAdd(FAdd(seed, FromInt(x)), FMul(FromInt(y), FromInt(100)))

(* one sampler drawn from by every run instead of the rng of each *)
seed_of_first_run(k, i) == render_rng[1]

(* the seed of the sampler compute_color_for_pixel or compute_color draws  *)
(* from for the element of index i                                         *)
seed_for_pixel(k, i) ==
  IF renderer[k].shader = "Renderer" THEN render_rng[k]
  ELSE pixel_seed(seeds[k], pixel_x(i, image[k].width), pixel_y(i, image[k].width))

Visit(k, i, from, pixel) ==
  /\ started' = [started EXCEPT ![k] = Append(@,
       [x |-> pixel_x(i, image[k].width), y |-> pixel_y(i, image[k].width),
        seed |-> from, color |-> pixel.color])]
  /\ render_rng' = [render_rng EXCEPT ![k] =
                      IF renderer[k].shader = "Renderer" THEN pixel.seed ELSE @]

(* *color = self.compute_color_for_pixel(x, y, &mut rng); a pixel whose    *)
(* call panics or never returns stops the run                              *)
Assign(k, i, pixel) ==
  IF pixel.st = "ok"
  THEN /\ image' = [image EXCEPT ![k].data[i + 1] = pixel.color]
       /\ written' = [written EXCEPT ![k][i + 1] = @ + 1]
       /\ cursor' = [cursor EXCEPT ![k] = i + 1]
       /\ UNCHANGED phase
  ELSE /\ phase' = [phase EXCEPT ![k] = pixel.st]
       /\ UNCHANGED <<image, written, cursor>>

Shade(k, i, from) ==
  Then(from, LET pixel == compute_color_for_pixel(renderer[k],
                            pixel_x(i, image[k].width), pixel_y(i, image[k].width), from)
             IN Visit(k, i, from, pixel) /\ Assign(k, i, pixel))

(* the runs not begun yet *)
InitRuns(jobs) ==
  /\ seeds = [k \in DOMAIN jobs |-> jobs[k].seed]
  /\ renderer = [k \in DOMAIN jobs |-> jobs[k].R]
  /\ phase = [k \in DOMAIN jobs |-> "new"]
  /\ image = [k \in DOMAIN jobs |-> NoImage]
  /\ cursor = [k \in DOMAIN jobs |-> 0]
  /\ render_rng = [k \in DOMAIN jobs |-> jobs[k].seed]
  /\ started = [k \in DOMAIN jobs |-> <<>>]
  /\ written = [k \in DOMAIN jobs |-> <<>>]
  /\ finished = <<>>

(* let mut rng = Rng::new(seed); let mut image = Image::new(..) *)
StartRender(k) ==
  /\ phase[k] = "new"
  /\ phase' = [phase EXCEPT ![k] = "run"]
  /\ image' = [image EXCEPT ![k] = Image(image_size(renderer[k])[1], image_size(renderer[k])[2])]
  /\ written' = [written EXCEPT ![k] =
                   [i \in 1 .. image_size(renderer[k])[1] * image_size(renderer[k])[2] |-> 0]]
  /\ render_rng' = [render_rng EXCEPT ![k] = seeds[k]]
  /\ UNCHANGED <<seeds, renderer, cursor, started, finished>>

(* one call of the closure of for_each *)
RenderPixel(k) ==
  /\ phase[k] = "run"
  /\ cursor[k] < Len(image[k].data)
  /\ Shade(k, cursor[k], seed_for_pixel(k, cursor[k]))
  /\ UNCHANGED <<seeds, renderer, finished>>

(* for_each is over: the image is returned *)
RenderReturn(k) ==
  /\ phase[k] = "run"
  /\ cursor[k] = Len(image[k].data)
  /\ phase' = [phase EXCEPT ![k] = "done"]
  /\ finished' = Append(finished, k)
  /\ UNCHANGED <<seeds, renderer, image, cursor, render_rng, started, written>>

----------------------------------------------------------------------------
(* Two calls, one after the other: Renderer::render(seed) on a Renderer,   *)
(* or Shader::apply on a new image with a PathTracerShader.                *)

MaxSamples == 1

Job(shader, w, h, objects, seed) ==
  [R |-> Renderer(shader, Camera(w, h), objects, White, MaxDepth, MaxSamples), seed |-> seed]

(* PathTracerShader::new pushes the three spheres *)
ShaderObjects == <<Ball, SmallBall, Ground>>

Jobs ==
  { Job("Renderer", 2, 2, <<>>, One),
    Job("Renderer", 2, 2, ShaderObjects, One),
    Job("Renderer", 1, 2, ShaderObjects, One),
    Job("Renderer", 2, 1, <<Ground>>, FromInt(8)),
    Job("PathTracerShader", 2, 2, ShaderObjects, One) }

(* an image wider than 100 pixels, as the sensor of main is *)
WideJob == Job("PathTracerShader", 101, 2, ShaderObjects, Half)

Programs == (Jobs \X Jobs) \cup {<<WideJob, Job("Renderer", 2, 2, <<>>, One)>>}

InitRender == \E jobs \in Programs : InitRuns(jobs)

(* the calls are made in turn *)
CallReady(k) == IF k = 1 THEN TRUE ELSE phase[k - 1] = "done"

NextRender ==
  \E k \in 1 .. 2 :
    \/ CallReady(k) /\ StartRender(k)
    \/ RenderPixel(k)
    \/ RenderReturn(k)

RenderInit == InitRender /\ RngIdle /\ VecIdle /\ TraceIdle /\ AvgIdle /\ PpmIdle

RenderStep == NextRender /\ UNCHANGED <<rngVars, vecVars, traceVars, avgVars, ppmVars>>

SpecRender == RenderInit /\ [][RenderStep]_vars

----------------------------------------------------------------------------
(* Renderer::average_render(seeds): one thread per seed runs render(seed); *)
(* then the images are joined in the order of the list and summed, each    *)
(* with the weight 1 / len.                                                *)

MaxSeeds == 2

(* two of the seeds main passes *)
AvgSeeds == { FromInt(3), FromInt(7) }

SeedLists == UNION { [1 .. n -> AvgSeeds] : n \in 1 .. MaxSeeds }

(* the renderer of the threads: a sensor of one pixel, max_depth 2, one    *)
(* sample per pixel                                                        *)
AvgRenderer == Renderer("Renderer", Camera(1, 1), ShaderObjects, Sky, 2, 1)

InitAverage ==
  /\ \E list \in SeedLists :
       InitRuns([k \in DOMAIN list |-> [R |-> AvgRenderer, seed |-> list[k]]])
  /\ avg_pc = "spawn"
  /\ spawned = 0
  /\ joined = 0
  /\ img = NoImage

(* images.push(std::thread::spawn(move || self.render(seed))) *)
AvgSpawn ==
  /\ avg_pc = "spawn"
  /\ spawned < Len(seeds)
  /\ spawned' = spawned + 1
  /\ UNCHANGED <<avg_pc, joined, img, renderVars>>

(* let mut img = Image::new(..); let weight = 1.0 / images.len() as f32 *)
AvgAllocate ==
  /\ avg_pc = "spawn"
  /\ spawned = Len(seeds)
  /\ avg_pc' = "join"
  /\ img' = Image(image_size(AvgRenderer)[1], image_size(AvgRenderer)[2])
  /\ UNCHANGED <<spawned, joined, renderVars>>

(* image.join().unwrap().data, then img.data[i] += image[i] * weight for   *)
(* every i: the next thread of the list, once it has returned              *)
AvgJoin ==
  /\ avg_pc = "join"
  /\ joined < Len(seeds)
  /\ phase[joined + 1] = "done"
  /\ img' = accumulate(img, image[joined + 1].data, weight(Len(seeds)))
  /\ joined' = joined + 1
  /\ UNCHANGED <<avg_pc, spawned, renderVars>>

AvgReturn ==
  /\ avg_pc = "join"
  /\ joined = Len(seeds)
  /\ avg_pc' = "returned"
  /\ UNCHANGED <<spawned, joined, img, renderVars>>

(* a step of the thread spawned for the k-th seed *)
Worker(k) ==
  /\ k <= spawned
  /\ \/ StartRender(k)
     \/ RenderPixel(k)
     \/ RenderReturn(k)
  /\ UNCHANGED avgVars

NextAverage ==
  \/ AvgSpawn
  \/ AvgAllocate
  \/ AvgJoin
  \/ AvgReturn
  \/ \E k \in DOMAIN seeds : Worker(k)

AverageInit == InitAverage /\ RngIdle /\ VecIdle /\ TraceIdle /\ PpmIdle

AverageStep == NextAverage /\ UNCHANGED <<rngVars, vecVars, traceVars, ppmVars>>

SpecAverage == AverageInit /\ [][AverageStep]_vars

----------------------------------------------------------------------------
(* Image::new(width, height), Shader::apply of a ClosureShader on the      *)
(* image, and Image::to_ppm.                                               *)

MaxPixels == 144

Sizes == { 0, 1, 2, 12, Pow2(16) }

(* the sizes whose image the model can hold *)
Holdable(width, height) ==
  /\ wrapping_mul(width, height)[1] = 0
  /\ as_usize(wrapping_mul(width, height)) <= MaxPixels

ClosureShaders ==
  { [kind |-> "coordinates", color |-> Black],
    [kind |-> "constant", color |-> xyz(Half, FromInt(2), FromInt(-1))],
    [kind |-> "constant", color |-> xyz(NaN, Inf(0), Fin(0, Pow2(23) - 1, -24))] }

InitPpm ==
  /\ \E width, height \in Sizes, overflow_checks \in BOOLEAN, shader \in ClosureShaders :
       /\ Holdable(width, height)
       /\ canvas = [st |-> "args", width |-> width, height |-> height,
                    overflow_checks |-> overflow_checks, shader |-> shader,
                    image |-> NoImage, applied |-> FALSE]
  /\ ppm = None

ImageNew ==
  /\ canvas.st = "args"
  /\ canvas' = [canvas EXCEPT
       !.st = image_new(canvas.width, canvas.height, canvas.overflow_checks).st,
       !.image = image_new(canvas.width, canvas.height, canvas.overflow_checks).image]
  /\ UNCHANGED ppm

Apply ==
  /\ canvas.st = "image"
  /\ ~canvas.applied
  /\ ppm = None
  /\ canvas' = [canvas EXCEPT !.image = apply(canvas.shader, canvas.image), !.applied = TRUE]
  /\ UNCHANGED ppm

ToPpm ==
  /\ canvas.st = "image"
  /\ ppm = None
  /\ ppm' = [st |-> "some", bytes |-> to_ppm(canvas.image)]
  /\ UNCHANGED canvas

NextPpm ==
  \/ ImageNew
  \/ Apply
  \/ ToPpm

PpmInit == InitPpm /\ RngIdle /\ VecIdle /\ TraceIdle /\ RenderIdle /\ AvgIdle

PpmStep == NextPpm /\ UNCHANGED <<rngVars, vecVars, traceVars, renderVars, avgVars>>

SpecPpm == PpmInit /\ [][PpmStep]_vars

----------------------------------------------------------------------------
(* Properties of the sampler *)

OpsOf(r) == [i \in 1 .. Len(calls[r]) |-> calls[r][i].op]

SameOpsUpTo(r1, r2, i) == \A j \in 1 .. i : calls[r1][j].op = calls[r2][j].op

InUnitInterval(v) == FGe(v, Zero(0)) /\ FLt(v, One)

(* C1: two samplers constructed with the same seed and given the same      *)
(* sequence of uniform()/unit_sphere() calls return the same outputs, call *)
(* by call, and are left with the same seed, however the calls of one are  *)
(* interleaved with the calls of the other.                                *)
C1_SameSeedSameStream ==
  \A r1, r2 \in Samplers :
    /\ \A i \in 1 .. Min2(Len(calls[r1]), Len(calls[r2])) :
         SameOpsUpTo(r1, r2, i) => calls[r1][i].ret = calls[r2][i].ret
    /\ (pc[r1] = "idle" /\ pc[r2] = "idle" /\ OpsOf(r1) = OpsOf(r2))
         => rng[r1] = rng[r2]

(* both samplers have returned a uniform() and then a unit_sphere() call,  *)
(* from a finite seed, the first having finished before the second began   *)
C1_Witness ==
  /\ OpsOf(1) = <<"uniform", "unit_sphere">>
  /\ OpsOf(2) = <<"uniform", "unit_sphere">>
  /\ IsFinite(rng[1].seed)
  /\ iters[1] > 1
  /\ rng[1].seed # Perturb

(* C2: every value returned by uniform() is at least 0 and less than 1     *)
(* (never 1, never negative, never NaN).                                   *)
C2_UniformInUnitInterval ==
  \A r \in Samplers : \A i \in 1 .. Len(calls[r]) :
    calls[r][i].op = "uniform" => InUnitInterval(calls[r][i].ret[1])

(* C3: every point returned by unit_sphere() has squared length < 1.       *)
C3_PointInsideUnitBall ==
  \A r \in Samplers : \A i \in 1 .. Len(calls[r]) :
    calls[r][i].op = "unit_sphere" => FLt(squared_length(calls[r][i].ret), One)

(* C4: a call of uniform() never leaves the seed it found: the seed after  *)
(* the call is a different f32 from the seed before it.                    *)
UniformReturns(r) ==
  /\ Len(calls'[r]) = Len(calls[r]) + 1
  /\ calls'[r][Len(calls'[r])].op = "uniform"

C4_UniformChangesSeed ==
  [][\A r \in Samplers : UniformReturns(r) => rng'[r].seed # rng[r].seed]_vars

(* C15: every call of Rng::unit_sphere() returns: from any state of the    *)
(* sampler the loop, which has no cap on its passes, reaches a point it    *)
(* accepts after finitely many draws.  The loop is never still rejecting   *)
(* its point when MaxLoop passes have been made.  Sin above approximates   *)
(* f32::sin, so the orbit of a seed here is not the orbit the build's libm *)
(* gives it: a cycle of this model is not a cycle of the program.          *)
C15_UnitSphereReturns ==
  \A r \in DOMAIN pc :
    (pc[r] = "loop" /\ sphere_rejects(pnt[r])) => iters[r] < MaxLoop

(* a call of unit_sphere() has returned a point inside the unit ball after *)
(* the loop rejected more than MaxIter candidates                          *)
C15_Witness ==
  /\ pc[1] = "idle"
  /\ calls[1] # <<>>
  /\ calls[1][Len(calls[1])].op = "unit_sphere"
  /\ iters[1] > MaxIter
  /\ iters[1] < MaxLoop
  /\ FLt(squared_length(pnt[1]), One)

----------------------------------------------------------------------------
(* Properties of the integrator *)

(* C5: a call of compute_color_for_ray with depth 0 returns black,        *)
(* (0, 0, 0), whatever the ray, the seed of the sampler, the objects and   *)
(* the ambient light color are; in Renderer and in PathTracerShader.       *)
C5_DepthZeroIsBlack ==
  (answer.st # "none" /\ call.max_depth = 0)
    => (answer.st = "ok" /\ answer.color = Black)

(* a call at depth 0 has returned, of a Renderer whose ambient light is    *)
(* white, on a ray that hits one of its objects                            *)
C5_Witness ==
  /\ answer.st = "ok"
  /\ call.max_depth = 0
  /\ call.R.shader = "Renderer"
  /\ call.R.ambient_light_color = White
  /\ nearest_hit(call.R, call.ray).st = "some"

(* the recursive result multiplied, component by component, by the albedo  *)
(* of the material of the object that was hit                              *)
attenuate_by_albedo(R, hit, color) ==
  <<FMul(color[1], R.objects[hit.obj].albedo[1]),
    FMul(color[2], R.objects[hit.obj].albedo[2]),
    FMul(color[3], R.objects[hit.obj].albedo[3])>>

scattered_color(R, hit, sphere, max_depth) ==
  compute_color_for_ray(R, scatter_ray(hit, sphere.p), sphere.seed, max_depth - 1).color

(* C6: on a hit at depth d > 0, the call returns the result of the         *)
(* recursive call for the scattered ray at depth d - 1 multiplied,         *)
(* component by component, by the albedo of the object that was hit.       *)
C6_HitMultipliesByAlbedo ==
  (answer.st = "ok" /\ call.max_depth > 0 /\ nearest_hit(call.R, call.ray).st = "some")
    => answer.color =
         attenuate_by_albedo(call.R, nearest_hit(call.R, call.ray).hit,
           scattered_color(call.R, nearest_hit(call.R, call.ray).hit,
                           unit_sphere(call.seed), call.max_depth))

(* C13: a call of compute_color_for_ray with depth d >= 0 searches the     *)
(* object list for the nearest hit at most d times, whatever the scene:    *)
(* every recursive call is made with the depth less 1, and a call at depth *)
(* 0 searches nothing and recurses no further.                             *)
C13_AtMostDepthQueries ==
  (answer.st # "none" /\ call.max_depth >= 0)
    => (answer.queries <= call.max_depth /\ Len(answer.path) <= answer.queries)

(* a Renderer call of the greatest depth has returned after hitting an     *)
(* object at every depth down to 1                                         *)
C13_Witness ==
  /\ answer.st = "ok"
  /\ call.R.shader = "Renderer"
  /\ call.max_depth = MaxDepth
  /\ Len(answer.path) = MaxDepth
  /\ answer.queries = MaxDepth

(* the objects of the call whose intersect(ray, MIN_DISTANCE) is a hit *)
HitObjects ==
  { i \in 1 .. Len(call.R.objects) : filter_map(call.R.objects, call.ray, i).st = "some" }

DistanceTo(i) ==
  squared_distance(call.ray.origin,
                   filter_map(call.R.objects, call.ray, i).hit.intersection_point)

(* C14: when the call scatters, it scatters from a hit whose squared       *)
(* distance from the ray origin is the least among the hits of all the     *)
(* objects: no object has a strictly nearer hit, whatever the order of the *)
(* objects in the list.                                                    *)
C14_ScattersFromNearestHit ==
  (answer.st = "ok" /\ answer.path # <<>>)
    => /\ answer.path[1] \in HitObjects
       /\ \A i \in HitObjects : ~FLt(DistanceTo(i), DistanceTo(answer.path[1]))

(* the ray hits several objects and the nearest is not the first of them   *)
(* in the list                                                             *)
C14_Witness ==
  /\ answer.st = "ok"
  /\ answer.path # <<>>
  /\ \E i \in HitObjects : i < answer.path[1] /\ FLt(DistanceTo(answer.path[1]), DistanceTo(i))

----------------------------------------------------------------------------
(* Properties of render and apply *)

RendersOf(shader) == { k \in DOMAIN phase : renderer[k].shader = shader }

SamePixel(a, b) == a.x = b.x /\ a.y = b.y

(* C7: in Renderer::render(seed) the sampler a pixel (x, y) draws from     *)
(* starts from a state fixed by (seed, x, y) alone: two calls with the     *)
(* same seed begin the pixel (x, y) with the same sampler state, however   *)
(* many draws the pixels visited before it consumed.                       *)
C7_PixelStreamFromSeedAndPixel ==
  \A k1, k2 \in RendersOf("Renderer") :
    seeds[k1] = seeds[k2]
      => \A i \in 1 .. Len(started[k1]) : \A j \in 1 .. Len(started[k2]) :
           SamePixel(started[k1][i], started[k2][j])
             => started[k1][i].seed = started[k2][j].seed

PixelsAt(k, x, y) ==
  { i \in 1 .. Len(started[k]) : started[k][i].x = x /\ started[k][i].y = y }

(* C12: after Shader::apply(image) and after Renderer::render, for every   *)
(* x < width and y < height the element data[y * width + x] holds the      *)
(* color computed for the pixel (x, y), the color was computed for that    *)
(* pixel once, and every element of data was written exactly once.         *)
C12_EveryPixelWrittenOnce ==
  \A k \in DOMAIN phase :
    phase[k] = "done"
      => /\ Len(image[k].data) = image[k].width * image[k].height
         /\ \A x \in 0 .. image[k].width - 1 : \A y \in 0 .. image[k].height - 1 :
              /\ written[k][y * image[k].width + x + 1] = 1
              /\ Cardinality(PixelsAt(k, x, y)) = 1
              /\ \A i \in PixelsAt(k, x, y) :
                   image[k].data[y * image[k].width + x + 1] = started[k][i].color

(* an apply of a PathTracerShader and a render of a Renderer have both     *)
(* returned, on images of more than one row and column that are not black  *)
C12_Witness ==
  /\ phase = <<"done", "done">>
  /\ renderer[1].shader = "PathTracerShader" /\ renderer[2].shader = "Renderer"
  /\ \A k \in 1 .. 2 :
       /\ image[k].width = 2 /\ image[k].height = 2
       /\ image[k].data[4] # Black

(* C16: in PathTracerShader::compute_color two distinct pixels of one      *)
(* image never start from the same sampler seed seed + x + y * 100,        *)
(* whatever the width of the image.                                        *)
C16_DistinctPixelsDistinctSeeds ==
  \A k \in RendersOf("PathTracerShader") :
    \A i, j \in 1 .. Len(started[k]) :
      i # j => started[k][i].seed # started[k][j].seed

----------------------------------------------------------------------------
(* Properties of average_render *)

(* the sum over the first k seeds of the list of render(seed)[i] * 1 / len *)
RECURSIVE WeightedSum(_, _)
WeightedSum(i, k) ==
  IF k = 0 THEN Black
  ELSE vadd(WeightedSum(i, k - 1),
            vmul(image[k].data[i], FDiv(One, FromInt(Len(seeds)))))

(* C8: the image average_render(seeds) returns has, at every pixel i, the  *)
(* sum over the seeds of the list, in the order of the list, of            *)
(* render(seed)[i] multiplied by the equal weight 1 / len(seeds).          *)
C8_AverageIsWeightedSum ==
  avg_pc = "returned"
    => /\ Len(img.data) = Len(image[1].data)
       /\ \A i \in 1 .. Len(img.data) : img.data[i] = WeightedSum(i, Len(seeds))

(* average_render has returned the average of the images of two different  *)
(* seeds, which differ, and the average is not black                       *)
C8_Witness ==
  /\ avg_pc = "returned"
  /\ Len(seeds) = 2
  /\ seeds[1] # seeds[2]
  /\ image[1] # image[2]
  /\ img.data[1] # Black

----------------------------------------------------------------------------
(* Properties of the vector types *)

IsZeroVec(v) == IsZero(v[1]) /\ IsZero(v[2]) /\ IsZero(v[3])

(* C10: normalized() of a vector of length zero returns the zero vector,   *)
(* with no NaN or infinite component: in matrix.rs, in geometry.rs, and    *)
(* for the direction of the ray the integrator scatters.                   *)
C10_NormalizedZeroIsZero ==
  (outcome.st = "some" /\ IsZeroVec(outcome.arg)) => IsZeroVec(outcome.ret)

----------------------------------------------------------------------------
(* Properties of the scalar operators *)

(* C17: m - s is the matrix whose every element is m[i][j] - s, so that    *)
(* (m + s) - s = m on integer elements.                                    *)
C17_ScalarSubSubtracts ==
  /\ (outcome.st = "some" /\ outcome.op = "sub")
       => \A i \in DOMAIN outcome.ret : \A j \in DOMAIN outcome.ret[i] :
            outcome.ret[i][j] = outcome.arg[1][i][j] - outcome.arg[2]
  /\ (outcome.st = "some" /\ outcome.op = "add_sub") => outcome.ret = outcome.arg[1]

----------------------------------------------------------------------------
(* Properties of to_ppm *)

IsPrefix(p, q) == Len(p) <= Len(q) /\ \A n \in 1 .. Len(p) : p[n] = q[n]

(* the number of pixels after the header, when the bytes after it are a    *)
(* whole number of pixels                                                  *)
PixelsAfterHeader == (Len(ppm.bytes) - Len(header(canvas.image))) \div 3

(* C11: for an Image of any width and height, to_ppm returns the header    *)
(* "P6 <width> <height> 255 " followed by exactly width * height * 3       *)
(* bytes.                                                                  *)
C11_PpmLength ==
  ppm.st = "some"
    => /\ IsPrefix(header(canvas.image), ppm.bytes)
       /\ (Len(ppm.bytes) - Len(header(canvas.image))) % 3 = 0
       /\ IF canvas.image.width = 0 THEN PixelsAfterHeader = 0
          ELSE /\ PixelsAfterHeader % canvas.image.width = 0
               /\ PixelsAfterHeader \div canvas.image.width = canvas.image.height
=============================================================================
